---- MODULE Spec2Model ----
(***************************************************************************)
(* KycVerifier: the verification session of the KYC component.  One React  *)
(* component holds image / extractedData / loading / error / useWebcam;    *)
(* its handlers run to completion between suspension points (the file      *)
(* read, the inference call, the fetch of a camera screenshot).            *)
(***************************************************************************)
EXTENDS Integers, Sequences, FiniteSets, TLC

(* ---------------------------------------------------------------------- *)
(* Bounds of the model                                                     *)
(* ---------------------------------------------------------------------- *)
\* screenshots whose fetch(...).then chain has not run yet
MaxPending == 1
\* handleVerifyClick invocations suspended at an await at the same time
MaxInFlight == 2

(* ---------------------------------------------------------------------- *)
(* JavaScript values, tagged by type                                       *)
(* ---------------------------------------------------------------------- *)
Null == [t |-> "null"]
Undefined == [t |-> "undefined"]
Str(s) == [t |-> "str", s |-> s]
Num(n) == [t |-> "num", n |-> n]
Bool(b) == [t |-> "bool", b |-> b]
Arr(a) == [t |-> "arr", a |-> a]
Obj(o) == [t |-> "obj", o |-> o]
MkFile(name, type, bytes) == [t |-> "file", name |-> name, type |-> type, bytes |-> bytes]

\* ToBoolean, as applied by if (x), !x, x && ..., x || ...
Truthy(x) ==
  CASE x.t \in {"null", "undefined"} -> FALSE
    [] x.t = "str" -> x.s # ""
    [] x.t = "num" -> x.n # 0
    [] x.t = "bool" -> x.b
    [] OTHER -> TRUE

(* ---------------------------------------------------------------------- *)
(* Inputs                                                                  *)
(* ---------------------------------------------------------------------- *)
\* files the user can choose in the file picker
PickerFiles ==
  { MkFile("dni.png", "image/png", <<137, 80, 78>>),
    MkFile("dni.jpg", "image/jpeg", <<255, 216>>),
    MkFile("vacio.png", "image/png", <<>>) }

\* still frames the live camera can deliver (JPEG bytes)
Frames == { <<255, 216, 255, 224>> }

\* the two messages, without their accents
ErrNoImage == Str("Por favor, selecciona una imagen primero.")
ErrProcessing == Str("Ocurrio un error al procesar la imagen. Asegurate de que la imagen sea clara y que la API key sea correcta.")

(* ---------------------------------------------------------------------- *)
(* Completion text.  A text is a sequence of lexemes: a code fence, a bare *)
(* word, white space, JSON punctuation, a JSON string, number or literal.  *)
(* ---------------------------------------------------------------------- *)
\* three backquotes
FENCE == [k |-> "fence", v |-> "fence"]
LANG == [k |-> "word", v |-> "json"]
NL == [k |-> "ws", v |-> "\n"]
SP == [k |-> "ws", v |-> " "]
Word(w) == [k |-> "word", v |-> w]
P(c) == [k |-> "punct", v |-> c]
S(x) == [k |-> "str", v |-> x]
N(n) == [k |-> "num", n |-> n]
L(x) == [k |-> "lit", v |-> x]

\* text.replace(/<fence>json/g, '')
RECURSIVE RemoveFenceJson(_)
RemoveFenceJson(s) ==
  IF Len(s) = 0 THEN <<>>
  ELSE IF Len(s) >= 2 /\ s[1] = FENCE /\ s[2] = LANG
    THEN RemoveFenceJson(SubSeq(s, 3, Len(s)))
    ELSE <<s[1]>> \o RemoveFenceJson(Tail(s))

\* variant: without the g flag only the first fence is removed
RECURSIVE RemoveFence_FirstOnly(_)
RemoveFence_FirstOnly(s) ==
  IF Len(s) = 0 THEN <<>>
  ELSE IF s[1] = FENCE THEN Tail(s)
  ELSE <<s[1]>> \o RemoveFence_FirstOnly(Tail(s))

\* .replace(/<fence>/g, '')
IsNotFence(tok) == tok # FENCE
RemoveFence(s) == SelectSeq(s, IsNotFence)

\* .trim()
RECURSIVE TrimStart(_)
TrimStart(s) ==
  IF Len(s) > 0 /\ s[1].k = "ws" THEN TrimStart(Tail(s)) ELSE s
RECURSIVE TrimEnd(_)
TrimEnd(s) ==
  IF Len(s) > 0 /\ s[Len(s)].k = "ws" THEN TrimEnd(SubSeq(s, 1, Len(s) - 1)) ELSE s
Trim(s) == TrimEnd(TrimStart(s))

StripFences(text) == Trim(RemoveFence(RemoveFenceJson(text)))

(* ---------------------------------------------------------------------- *)
(* JSON.parse on lexemes: a scalar, an array of scalars or an object whose *)
(* members are scalars; anything else is a SyntaxError (ok = FALSE).       *)
(* ---------------------------------------------------------------------- *)
IsScalarTok(tok) == tok.k \in {"str", "num", "lit"} /\
                    (tok.k = "lit" => tok.v \in {"null", "true", "false"})
ScalarValue(tok) ==
  CASE tok.k = "str" -> Str(tok.v)
    [] tok.k = "num" -> Num(tok.n)
    [] tok.v = "null" -> Null
    [] tok.v = "true" -> Bool(TRUE)
    [] OTHER -> Bool(FALSE)

SyntaxError == [ok |-> FALSE, value |-> Undefined]
Parsed(v) == [ok |-> TRUE, value |-> v]

\* elements of a non-empty array: scalar ("," scalar)*
RECURSIVE ParseElements(_)
ParseElements(s) ==
  IF Len(s) = 0 \/ ~IsScalarTok(s[1]) THEN [ok |-> FALSE, value |-> <<>>]
  ELSE IF Len(s) = 1 THEN [ok |-> TRUE, value |-> <<ScalarValue(s[1])>>]
  ELSE IF s[2] # P(",") THEN [ok |-> FALSE, value |-> <<>>]
  ELSE LET rest == ParseElements(SubSeq(s, 3, Len(s)))
       IN  [ok |-> rest.ok, value |-> <<ScalarValue(s[1])>> \o rest.value]

EmptyObject == [key \in {} |-> Null]
SetProp(f, key, val) == [x \in DOMAIN f \cup {key} |-> IF x = key THEN val ELSE f[x]]

\* members of a non-empty object: string ":" scalar ("," string ":" scalar)*;
\* a repeated key keeps its last value
RECURSIVE ParseMembers(_, _)
ParseMembers(s, acc) ==
  IF Len(s) < 3 \/ s[1].k # "str" \/ s[2] # P(":") \/ ~IsScalarTok(s[3])
    THEN [ok |-> FALSE, value |-> acc]
  ELSE LET next == SetProp(acc, s[1].v, ScalarValue(s[3]))
       IN  IF Len(s) = 3 THEN [ok |-> TRUE, value |-> next]
           ELSE IF s[4] # P(",") THEN [ok |-> FALSE, value |-> acc]
           ELSE ParseMembers(SubSeq(s, 5, Len(s)), next)

IsNotSpace(tok) == tok.k # "ws"
JSONparse(text) ==
  LET s == SelectSeq(text, IsNotSpace)
      n == Len(s)
  IN  IF n = 0 THEN SyntaxError
      ELSE IF n = 1 THEN (IF IsScalarTok(s[1]) THEN Parsed(ScalarValue(s[1])) ELSE SyntaxError)
      ELSE IF s[1] = P("[") /\ s[n] = P("]") THEN
             (IF n = 2 THEN Parsed(Arr(<<>>))
              ELSE LET e == ParseElements(SubSeq(s, 2, n - 1))
                   IN  IF e.ok THEN Parsed(Arr(e.value)) ELSE SyntaxError)
      ELSE IF s[1] = P("{") /\ s[n] = P("}") THEN
             (IF n = 2 THEN Parsed(Obj(EmptyObject))
              ELSE LET m == ParseMembers(SubSeq(s, 2, n - 1), EmptyObject)
                   IN  IF m.ok THEN Parsed(Obj(m.value)) ELSE SyntaxError)
      ELSE SyntaxError

(* ---------------------------------------------------------------------- *)
(* What the inference service can answer                                   *)
(* ---------------------------------------------------------------------- *)
Member(key, tok) == <<S(key), P(":"), SP, tok>>
FullObject ==
  <<P("{")>> \o Member("nombre", S("Juan")) \o <<P(",")>>
             \o Member("apellido", S("Perez")) \o <<P(",")>>
             \o Member("nacionalidad", S("AR")) \o <<P(",")>>
             \o Member("fechaNacimiento", S("1990-05-15")) \o <<P("}")>>
PartialObject ==
  <<P("{")>> \o Member("nombre", L("null")) \o <<P(",")>>
             \o Member("apellido", S("Perez")) \o <<P("}")>>
AgeObject ==
  <<P("{")>> \o Member("nacionalidad", S("Mexicana")) \o <<P(",")>>
             \o Member("edad", N(30)) \o <<P("}")>>
AgeZeroObject ==
  <<P("{")>> \o Member("nacionalidad", S("Mexicana")) \o <<P(",")>>
             \o Member("edad", N(0)) \o <<P("}")>>
\* a payload inside a fenced block: with the json tag, without it, and with
\* white space around the block
Fenced(payload) == <<FENCE, LANG, NL>> \o payload \o <<NL, FENCE, NL>>
FencedPlain(payload) == <<FENCE, NL>> \o payload \o <<NL, FENCE>>
FencedPadded(payload) == <<SP, NL, FENCE, LANG, NL>> \o payload \o <<NL, FENCE, NL, SP>>

\* JSON payloads the service may send bare or fenced
JsonPayloads ==
  { FullObject, PartialObject, AgeZeroObject, <<L("null")>>, <<S("AR")>>,
    <<P("["), S("Juan"), P(","), S("Perez"), P("]")>> }

Completions ==
  { FullObject, Fenced(FullObject), PartialObject, AgeObject, AgeZeroObject, <<P("{"), P("}")>>,
    <<>>, <<NL>>,
    <<Word("Lo"), SP, Word("siento")>>,
    <<Word("Resultado"), P(":"), NL>> \o Fenced(FullObject),
    <<P("{")>> \o Member("nombre", S("Juan")),
    <<L("null")>>, <<N(42)>>, <<N(0)>>, <<S("AR")>>, <<L("true")>>, Fenced(<<L("false")>>),
    <<P("["), P("]")>>, <<P("["), S("Juan"), P(","), S("Perez"), P("]")>> }
  \cup JsonPayloads
  \cup { Fenced(p) : p \in JsonPayloads }
  \cup { FencedPlain(p) : p \in JsonPayloads }
  \cup { FencedPadded(p) : p \in JsonPayloads }

\* generateContent rejects (network, authentication) or resolves with a text
Responses ==
  { [kind |-> "network_error", text |-> <<>>], [kind |-> "auth_error", text |-> <<>>] }
  \cup { [kind |-> "text", text |-> c] : c \in Completions }

(* ---------------------------------------------------------------------- *)
(* State                                                                   *)
(* ---------------------------------------------------------------------- *)
VARIABLES
  image,          \* useState<File | null>
  extractedData,  \* useState<ExtractedData | null>
  loading,        \* useState<boolean>
  error,          \* useState<string | null>
  useWebcam,      \* useState<boolean>
  webcamRef,      \* useRef<Webcam | null>: the mounted camera component
  attempts,       \* suspended handleVerifyClick invocations
  captures,       \* screenshots being fetched by captureImage
  lastOp          \* the handler step taken last, and the session state it started from

vars == <<image, extractedData, loading, error, useWebcam, webcamRef, attempts, captures, lastOp>>

Slots == 1..MaxInFlight
\* pc: where the invocation is suspended; file: the image it closed over;
\* part: the result of fileToGenerativePart; sent: its generateContent calls
FreeSlot == [pc |-> "free", file |-> Null, part |-> Null, sent |-> 0]
NewAttempt(file) == [pc |-> "reading", file |-> file, part |-> Null, sent |-> 0]

\* the state of the attempt state machine, read off the session's fields
SessionState ==
  IF loading THEN "Dispatched"
  ELSE IF error = ErrProcessing THEN "Failed"
  ELSE IF Truthy(extractedData) THEN "Succeeded"
  ELSE "Idle"

Op(name, arg) == [op |-> name, from |-> SessionState, arg |-> arg]

Init ==
  /\ image = Null
  /\ extractedData = Null
  /\ loading = FALSE
  /\ error = Null
  /\ useWebcam = FALSE
  /\ webcamRef = Null
  /\ attempts = [s \in Slots |-> FreeSlot]
  /\ captures = <<>>
  /\ lastOp = [op |-> "init", from |-> "Idle", arg |-> Null]

(* ---------------------------------------------------------------------- *)
(* handleImageChange                                                       *)
(* ---------------------------------------------------------------------- *)
\* variant: the prior error is not reset
handleImageChange_KeepsError(file) ==
  /\ IF Truthy(file)
       THEN /\ image' = file
            /\ extractedData' = Null
            /\ UNCHANGED error
       ELSE UNCHANGED <<image, extractedData, error>>
  /\ lastOp' = Op("handleImageChange", file)
  /\ UNCHANGED <<loading, useWebcam, webcamRef, attempts, captures>>

handleImageChange(file) ==
  /\ IF Truthy(file)
       THEN /\ image' = file
            /\ extractedData' = Null
            /\ error' = Null
       ELSE UNCHANGED <<image, extractedData, error>>
  /\ lastOp' = Op("handleImageChange", file)
  /\ UNCHANGED <<loading, useWebcam, webcamRef, attempts, captures>>

\* the file input is rendered only in file-upload mode; a cancelled dialog
\* delivers a change event whose files list is empty
FileInputChange ==
  /\ ~useWebcam
  /\ \E file \in PickerFiles \cup {Undefined} : handleImageChange(file)

(* ---------------------------------------------------------------------- *)
(* handleVerifyClick, up to its first await                                *)
(* ---------------------------------------------------------------------- *)
\* variant: the button is not disabled while loading
VerifyDisabled_IgnoresLoading == ~Truthy(image)

\* the verify button: disabled={!image || loading}
VerifyDisabled == ~Truthy(image) \/ loading

\* variant: the prior result is not reset
ResetForAttempt_KeepsData ==
  /\ loading' = TRUE
  /\ error' = Null
  /\ UNCHANGED extractedData

\* variant: the prior error is not reset
ResetForAttempt_KeepsError ==
  /\ loading' = TRUE
  /\ extractedData' = Null
  /\ UNCHANGED error

\* setLoading(true); setError(null); setExtractedData(null)
ResetForAttempt ==
  /\ loading' = TRUE
  /\ error' = Null
  /\ extractedData' = Null

\* variant: the no-image check does not return
handleVerifyClick_NoReturn(s) ==
  /\ attempts[s].pc = "free"
  /\ ResetForAttempt
  /\ attempts' = [attempts EXCEPT ![s] = NewAttempt(image)]
  /\ lastOp' = Op("handleVerifyClick", Str("dispatched"))
  /\ UNCHANGED <<image, useWebcam, webcamRef, captures>>

\* the invocation runs in slot s until it suspends in fileToGenerativePart,
\* holding the image of the render it was created in
handleVerifyClick(s) ==
  /\ attempts[s].pc = "free"
  /\ IF ~Truthy(image)
       THEN /\ error' = ErrNoImage
            /\ lastOp' = Op("handleVerifyClick", Str("no image"))
            /\ UNCHANGED <<loading, extractedData, attempts>>
       ELSE /\ ResetForAttempt
            /\ attempts' = [attempts EXCEPT ![s] = NewAttempt(image)]
            /\ lastOp' = Op("handleVerifyClick", Str("dispatched"))
  /\ UNCHANGED <<image, useWebcam, webcamRef, captures>>

FirstFree == CHOOSE s \in Slots : attempts[s].pc = "free" /\
                                  \A r \in Slots : attempts[r].pc = "free" => s <= r

\* a click on the verify button: a disabled button delivers no click event.
\* The state updates of a click handler are rendered before the next event is
\* handled, so the button a click meets shows the current image and loading.
VerifyButtonClick ==
  IF VerifyDisabled
    THEN /\ lastOp' = Op("verifyClickIgnored", Null)
         /\ UNCHANGED <<image, extractedData, loading, error, useWebcam, webcamRef, attempts, captures>>
    ELSE /\ \E s \in Slots : attempts[s].pc = "free"
         /\ handleVerifyClick(FirstFree)

\* handleVerifyClick invoked as a function, whatever the button shows
VerifyCall ==
  /\ \E s \in Slots : attempts[s].pc = "free"
  /\ handleVerifyClick(FirstFree)

(* ---------------------------------------------------------------------- *)
(* fileToGenerativePart: the FileReader finishes                           *)
(* ---------------------------------------------------------------------- *)
\* characters of a data URL: header text, the comma, base64 digits 0..63, "="
Hdr(x) == [c |-> "text", v |-> x]
Comma == [c |-> "comma", v |-> ","]
B64(d) == [c |-> "b64", d |-> d]
Pad == [c |-> "pad", v |-> "="]

\* variant: the last group is not padded and its low bits are dropped
RECURSIVE Base64Encode_DropsRemainder(_)
Base64Encode_DropsRemainder(bytes) ==
  IF Len(bytes) < 3 THEN <<>>
  ELSE <<B64(bytes[1] \div 4), B64((bytes[1] % 4) * 16 + bytes[2] \div 16),
         B64((bytes[2] % 16) * 4 + bytes[3] \div 64), B64(bytes[3] % 64)>>
       \o Base64Encode_DropsRemainder(SubSeq(bytes, 4, Len(bytes)))

\* base64 of a byte sequence, as readAsDataURL produces it
RECURSIVE Base64Encode(_)
Base64Encode(bytes) ==
  IF Len(bytes) = 0 THEN <<>>
  ELSE IF Len(bytes) = 1 THEN
    <<B64(bytes[1] \div 4), B64((bytes[1] % 4) * 16), Pad, Pad>>
  ELSE IF Len(bytes) = 2 THEN
    <<B64(bytes[1] \div 4), B64((bytes[1] % 4) * 16 + bytes[2] \div 16),
      B64((bytes[2] % 16) * 4), Pad>>
  ELSE <<B64(bytes[1] \div 4), B64((bytes[1] % 4) * 16 + bytes[2] \div 16),
         B64((bytes[2] % 16) * 4 + bytes[3] \div 64), B64(bytes[3] % 64)>>
       \o Base64Encode(SubSeq(bytes, 4, Len(bytes)))

\* reader.result after readAsDataURL(file): data:<type>;base64,<digits>
ReadAsDataURL(file) ==
  <<Hdr("data:"), Hdr(file.type), Hdr(";base64"), Comma>> \o Base64Encode(file.bytes)

\* result.split(',')[1]: the text between the first and the second comma,
\* undefined when there is no comma
CommaAt(str) == { i \in 1..Len(str) : str[i] = Comma }
Least(set) == CHOOSE i \in set : \A j \in set : i <= j
SplitSecond(str) ==
  IF CommaAt(str) = {} THEN Undefined
  ELSE LET first == Least(CommaAt(str))
           later == { i \in CommaAt(str) : i > first }
           stop == IF later = {} THEN Len(str) + 1 ELSE Least(later)
       IN  [t |-> "text", chars |-> SubSeq(str, first + 1, stop - 1)]

\* the value fileToGenerativePart resolves with
fileToGenerativePart(file) ==
  [data |-> SplitSecond(ReadAsDataURL(file)), mimeType |-> file.type]

\* onloadend after a successful read: the promise resolves, the part is
\* built and model.generateContent sends the request
FileReadLoaded(s) ==
  /\ attempts[s].pc = "reading"
  /\ attempts' = [attempts EXCEPT ![s].pc = "calling",
                                   ![s].part = fileToGenerativePart(attempts[s].file),
                                   ![s].sent = attempts[s].sent + 1]
  /\ lastOp' = Op("fileRead", Str("load"))
  /\ UNCHANGED <<image, extractedData, loading, error, useWebcam, webcamRef, captures>>

\* onloadend after a failed read of a file on disk: reader.result is null,
\* result.split throws inside the event handler and resolve is never called
FileReadFailed(s) ==
  /\ attempts[s].pc = "reading"
  /\ attempts[s].file \in PickerFiles
  /\ attempts' = [attempts EXCEPT ![s].pc = "hung"]
  /\ lastOp' = Op("fileRead", Str("error"))
  /\ UNCHANGED <<image, extractedData, loading, error, useWebcam, webcamRef, captures>>

(* ---------------------------------------------------------------------- *)
(* handleVerifyClick, after the inference call settles                     *)
(* ---------------------------------------------------------------------- *)
\* variant: a completion that does not parse is taken as "nothing found"
TryBlock_SwallowsParseError(resp) ==
  IF resp.kind # "text" THEN [threw |-> TRUE, data |-> Undefined]
  ELSE LET parsedData == JSONparse(StripFences(resp.text))
       IN  IF parsedData.ok THEN [threw |-> FALSE, data |-> parsedData.value]
           ELSE [threw |-> FALSE, data |-> Null]

\* the rest of the try block: threw = control reaches catch
TryBlock(resp) ==
  IF resp.kind # "text" THEN [threw |-> TRUE, data |-> Undefined]
  ELSE LET parsedData == JSONparse(StripFences(resp.text))
       IN  IF parsedData.ok THEN [threw |-> FALSE, data |-> parsedData.value]
           ELSE [threw |-> TRUE, data |-> Undefined]

\* catch (e) { setError(...) }
CatchBlock ==
  /\ error' = ErrProcessing
  /\ UNCHANGED extractedData

\* variant: loading is not cleared
FinallyBlock_Missing == UNCHANGED loading

\* finally { setLoading(false) }
FinallyBlock == loading' = FALSE

\* variant: a failed call is sent once more before the error is reported
InferenceSettled_RetriesOnce(s, resp) ==
  /\ attempts[s].pc = "calling"
  /\ IF TryBlock(resp).threw /\ attempts[s].sent < 2
       THEN /\ attempts' = [attempts EXCEPT ![s].sent = attempts[s].sent + 1]
            /\ UNCHANGED <<extractedData, error, loading>>
       ELSE /\ LET r == TryBlock(resp)
               IN  IF r.threw THEN CatchBlock
                   ELSE extractedData' = r.data /\ UNCHANGED error
            /\ FinallyBlock
            /\ attempts' = [attempts EXCEPT ![s] = FreeSlot]
  /\ lastOp' = Op("settled", resp)
  /\ UNCHANGED <<image, useWebcam, webcamRef, captures>>

InferenceSettled(s, resp) ==
  /\ attempts[s].pc = "calling"
  /\ LET r == TryBlock(resp)
     IN  IF r.threw THEN CatchBlock
         ELSE extractedData' = r.data /\ UNCHANGED error
  /\ FinallyBlock
  /\ attempts' = [attempts EXCEPT ![s] = FreeSlot]
  /\ lastOp' = Op("settled", resp)
  /\ UNCHANGED <<image, useWebcam, webcamRef, captures>>

(* ---------------------------------------------------------------------- *)
(* The result panel                                                        *)
(* ---------------------------------------------------------------------- *)
\* data.key: undefined for a key the value does not have
GetProp(data, key) ==
  IF data.t = "obj" /\ key \in DOMAIN data.o THEN data.o[key] ELSE Undefined

\* {data.key || 'fallback'}
Displayed(data, key, fallback) ==
  IF Truthy(GetProp(data, key)) THEN GetProp(data, key) ELSE Str(fallback)

\* {extractedData && (...)} of the identity variant
IdentityPanel ==
  IF Truthy(extractedData)
    THEN [shown |-> TRUE,
          nombre |-> Displayed(extractedData, "nombre", "No encontrado"),
          apellido |-> Displayed(extractedData, "apellido", "No encontrado"),
          nacionalidad |-> Displayed(extractedData, "nacionalidad", "No encontrada"),
          fechaNacimiento |-> Displayed(extractedData, "fechaNacimiento", "No encontrada")]
    ELSE [shown |-> FALSE]

\* {extractedData && (...)} of the nationality and age variant
AgePanel ==
  IF Truthy(extractedData)
    THEN [shown |-> TRUE,
          nacionalidad |-> Displayed(extractedData, "nacionalidad", "No encontrada"),
          edad |-> Displayed(extractedData, "edad", "No encontrada")]
    ELSE [shown |-> FALSE]

(* ---------------------------------------------------------------------- *)
(* Camera                                                                  *)
(* ---------------------------------------------------------------------- *)
\* the component live on the camera while it is mounted
MountedWebcam == [t |-> "Webcam"]

\* {!useWebcam ? <file input> : <Webcam ref={webcamRef} />}: the render after
\* a state change mounts or unmounts the camera and sets the ref
RenderWebcam(on) == IF on THEN MountedWebcam ELSE Null

SwitchToFile ==
  /\ useWebcam' = FALSE
  /\ webcamRef' = RenderWebcam(useWebcam')
  /\ lastOp' = Op("setUseWebcam", Bool(FALSE))
  /\ UNCHANGED <<image, extractedData, loading, error, attempts, captures>>

SwitchToCamera ==
  /\ useWebcam' = TRUE
  /\ webcamRef' = RenderWebcam(useWebcam')
  /\ lastOp' = Op("setUseWebcam", Bool(TRUE))
  /\ UNCHANGED <<image, extractedData, loading, error, attempts, captures>>

\* getScreenshot() of the mounted Webcam: a data URL, or null without a stream
Screenshots == { [t |-> "dataurl", type |-> "image/jpeg", bytes |-> f] : f \in Frames } \cup {Null}

\* captureImage up to fetch(imageSrc); the button exists only in camera mode
captureImage(imageSrc) ==
  /\ useWebcam
  /\ IF Truthy(imageSrc)
       THEN /\ Len(captures) < MaxPending
            /\ captures' = Append(captures, imageSrc)
       ELSE UNCHANGED captures
  /\ lastOp' = Op("captureImage", imageSrc)
  /\ UNCHANGED <<image, extractedData, loading, error, useWebcam, webcamRef, attempts>>

\* webcamRef.current?.getScreenshot()
GetScreenshot == IF webcamRef = Null THEN {Undefined} ELSE Screenshots

CaptureClick == \E imageSrc \in GetScreenshot : captureImage(imageSrc)

RemoveAt(q, i) == SubSeq(q, 1, i - 1) \o SubSeq(q, i + 1, Len(q))

\* .then(blob => { setImage(new File([blob], ...)); setUseWebcam(false) })
\* variant: the capture keeps the camera mode
CaptureFetched_KeepsCamera(i) ==
  /\ i \in 1..Len(captures)
  /\ image' = MkFile("webcam-capture.jpg", "image/jpeg", captures[i].bytes)
  /\ captures' = RemoveAt(captures, i)
  /\ lastOp' = Op("captureFetched", captures[i])
  /\ UNCHANGED <<extractedData, loading, error, useWebcam, webcamRef, attempts>>

CaptureFetched(i) ==
  /\ i \in 1..Len(captures)
  /\ image' = MkFile("webcam-capture.jpg", "image/jpeg", captures[i].bytes)
  /\ useWebcam' = FALSE
  /\ webcamRef' = RenderWebcam(useWebcam')
  /\ captures' = RemoveAt(captures, i)
  /\ lastOp' = Op("captureFetched", captures[i])
  /\ UNCHANGED <<extractedData, loading, error, attempts>>

(* ---------------------------------------------------------------------- *)
(* The component driven through what it renders                            *)
(* ---------------------------------------------------------------------- *)
Next ==
  \/ FileInputChange
  \/ VerifyButtonClick
  \/ SwitchToFile
  \/ SwitchToCamera
  \/ CaptureClick
  \/ \E s \in Slots : FileReadLoaded(s)
  \/ \E s \in Slots : FileReadFailed(s)
  \/ \E s \in Slots : \E resp \in Responses : InferenceSettled(s, resp)
  \/ \E i \in 1..MaxPending : CaptureFetched(i)

Spec == Init /\ [][Next]_vars

\* the browser finishes every file read (onloadend fires after load and after
\* error) and the inference call of every attempt settles
FileReadEnds == \E s \in Slots : FileReadLoaded(s) \/ FileReadFailed(s)
InferenceEnds == \E s \in Slots : \E resp \in Responses : InferenceSettled(s, resp)

SpecFair == Spec /\ WF_vars(FileReadEnds) /\ WF_vars(InferenceEnds)

(* ---------------------------------------------------------------------- *)
(* The handlers invoked directly, as the session's inbound interface       *)
(* ---------------------------------------------------------------------- *)
\* one answer of each kind: a rejection, an object, a text that does not
\* parse, a JSON value that is no object
DirectResponses ==
  { [kind |-> "network_error", text |-> <<>>],
    [kind |-> "text", text |-> Fenced(FullObject)],
    [kind |-> "text", text |-> <<Word("Lo"), SP, Word("siento")>>],
    [kind |-> "text", text |-> <<L("null")>>] }

NextDirect ==
  \/ FileInputChange
  \/ VerifyCall
  \/ SwitchToFile
  \/ SwitchToCamera
  \/ CaptureClick
  \/ \E s \in Slots : FileReadLoaded(s)
  \/ \E s \in Slots : FileReadFailed(s)
  \/ \E s \in Slots : \E resp \in DirectResponses : InferenceSettled(s, resp)
  \/ \E i \in 1..MaxPending : CaptureFetched(i)

SpecDirect == Init /\ [][NextDirect]_vars

(* ---------------------------------------------------------------------- *)
(* Properties                                                              *)
(* ---------------------------------------------------------------------- *)
\* attempts that were dispatched and have neither succeeded nor failed
InFlight == { s \in Slots : attempts[s].pc # "free" }
\* requests sent to the inference service and not answered yet
OutstandingRequests == { s \in Slots : attempts[s].pc = "calling" }
VerifyOps == {"verifyClickIgnored", "handleVerifyClick"}

\* C1: at most one verification attempt is in flight and at most one
\* inference request is outstanding in every reachable state, and a click on
\* the verify button while an attempt is Dispatched starts nothing: no
\* attempt is added, no request is sent, the session is left as it was.
C1_SingleAttemptInFlight ==
  /\ [](Cardinality(InFlight) <= 1 /\ Cardinality(OutstandingRequests) <= 1)
  /\ [][(loading /\ lastOp'.op \in VerifyOps) =>
          /\ lastOp'.op = "verifyClickIgnored"
          /\ UNCHANGED <<image, extractedData, loading, error, useWebcam, webcamRef, attempts, captures>>]_vars

C1_Witness ==
  /\ lastOp.op = "verifyClickIgnored"
  /\ lastOp.from = "Dispatched"
  /\ Cardinality(OutstandingRequests) = 1

\* C2: handleVerifyClick called with no image sets the user-input message,
\* starts no file read and no inference call, leaves loading false and
\* leaves extractedData as it was.
C2_NoImageIsUserInputError ==
  [][(lastOp'.op = "handleVerifyClick" /\ ~Truthy(image)) =>
       /\ error' = ErrNoImage
       /\ attempts' = attempts
       /\ ~loading'
       /\ extractedData' = extractedData
       /\ image' = image]_vars

C2_Witness ==
  /\ lastOp.op = "handleVerifyClick"
  /\ ~Truthy(image)
  /\ error = ErrNoImage
  /\ InFlight = {}

\* C3: after handleImageChange with a file, started in Succeeded or Failed,
\* the session is Idle: the image is that file, extractedData and error are
\* null.
C3_NewFileResetsToIdle ==
  (lastOp.op = "handleImageChange" /\ Truthy(lastOp.arg)
     /\ lastOp.from \in {"Succeeded", "Failed"}) =>
    /\ image = lastOp.arg
    /\ extractedData = Null
    /\ error = Null
    /\ SessionState = "Idle"

C3_Witness ==
  /\ lastOp.op = "handleImageChange"
  /\ Truthy(lastOp.arg)
  /\ lastOp.from = "Failed"
  /\ image = lastOp.arg

\* C4: when a captured frame replaces the image of a session that is in
\* Succeeded or Failed, the prior result and the prior error are cleared and
\* the session is Idle.
C4_CaptureResetsToIdle ==
  (lastOp.op = "captureFetched" /\ lastOp.from \in {"Succeeded", "Failed"}) =>
    /\ extractedData = Null
    /\ error = Null
    /\ SessionState = "Idle"

\* C5: while an attempt is Dispatched the held image does not change (no
\* file selection and no capture replaces it) until the attempt completes.
C5_NoNewImageWhileDispatched ==
  [][loading => image' = image]_vars

\* C6: extractedData and error are never both non-null; after an attempt
\* completes exactly one of {neither, a result, an error} holds.
C6_ResultXorError ==
  ~(extractedData # Null /\ error # Null)

C6_Witness ==
  /\ lastOp.op = "settled"
  /\ lastOp.from = "Dispatched"
  /\ error # Null
  /\ extractedData = Null

\* C7: loading is true exactly while an attempt has been dispatched and has
\* not yet succeeded or failed.
C7_LoadingIffInFlight ==
  loading <=> (InFlight # {})

C7_Witness ==
  /\ lastOp.op = "settled"
  /\ ~loading
  /\ InFlight = {}

\* the failure causes: the call rejects (network, authentication), the
\* completion is empty, or it is not valid JSON once the fences are stripped
IsFailureCause(resp) ==
  \/ resp.kind \in {"network_error", "auth_error"}
  \/ resp.kind = "text" /\ resp.text = <<>>
  \/ resp.kind = "text" /\ ~JSONparse(StripFences(resp.text)).ok

\* C8: an attempt that settles with any failure cause ends in Failed with
\* the one generic, non-empty message, extractedData unset and loading
\* false, whatever the cause was.
C8_UniformFailure ==
  (lastOp.op = "settled" /\ IsFailureCause(lastOp.arg)) =>
    /\ error = ErrProcessing
    /\ ErrProcessing.s # ""
    /\ extractedData = Null
    /\ ~loading
    /\ SessionState = "Failed"

C8_Witness ==
  /\ lastOp.op = "settled"
  /\ lastOp.arg.kind = "text"
  /\ lastOp.arg.text # <<>>
  /\ IsFailureCause(lastOp.arg)
  /\ error = ErrProcessing

\* a completion whose stripped text is valid JSON but not a JSON object
IsNonObjectJson(resp) ==
  /\ resp.kind = "text"
  /\ JSONparse(StripFences(resp.text)).ok
  /\ JSONparse(StripFences(resp.text)).value.t # "obj"

\* C9: an attempt that settles with valid JSON that is not an object ends
\* in Failed with the generic message and no extraction result.
C9_NonObjectIsError ==
  (lastOp.op = "settled" /\ IsNonObjectJson(lastOp.arg)) =>
    /\ error = ErrProcessing
    /\ extractedData = Null

\* the step just taken was an error outcome of an attempt
ErrorOutcome(op) ==
  \/ op.op = "fileRead" /\ op.arg = Str("error")
  \/ op.op = "settled" /\ TryBlock(op.arg).threw

\* C10: every error outcome of an attempt clears loading and leaves the
\* image as it was, so that the verify button is enabled again.
C10_ErrorPathsAllowRetry ==
  [][ErrorOutcome(lastOp') =>
       /\ ~loading'
       /\ image' = image
       /\ ~VerifyDisabled']_vars

\* the completion of the settled attempt, parsed
SettledValue == JSONparse(StripFences(lastOp.arg.text)).value
SettledWithObject ==
  /\ lastOp.op = "settled"
  /\ lastOp.arg.kind = "text"
  /\ JSONparse(StripFences(lastOp.arg.text)).ok
  /\ SettledValue.t = "obj"

\* a field shows the not-found text when it is null or absent, and its own
\* value when that value has one of the given types
ShowsField(panel, key, fallback, types) ==
  LET v == GetProp(SettledValue, key)
  IN  /\ v.t \in {"null", "undefined"} => panel[key] = Str(fallback)
      /\ v.t \in types => panel[key] = v

\* C11: an attempt that settles with an object, some of whose fields may be
\* null or absent, ends in Succeeded; each null or absent field shows the
\* not-found text and each present string (or number, for the nationality
\* and age variant) shows as itself.
C11_PartialResultShown ==
  SettledWithObject =>
    /\ SessionState = "Succeeded"
    /\ IdentityPanel.shown /\ AgePanel.shown
    /\ ShowsField(IdentityPanel, "nombre", "No encontrado", {"str"})
    /\ ShowsField(IdentityPanel, "apellido", "No encontrado", {"str"})
    /\ ShowsField(IdentityPanel, "nacionalidad", "No encontrada", {"str"})
    /\ ShowsField(IdentityPanel, "fechaNacimiento", "No encontrada", {"str"})
    /\ ShowsField(AgePanel, "nacionalidad", "No encontrada", {"str", "num"})
    /\ ShowsField(AgePanel, "edad", "No encontrada", {"str", "num"})

\* the session fields an attempt leaves when it settles with this text
OutcomeOf(text) ==
  LET r == TryBlock([kind |-> "text", text |-> text])
  IN  IF r.threw THEN [data |-> Null, error |-> ErrProcessing]
      ELSE [data |-> r.data, error |-> Null]

IsFencedFormOf(text, p) ==
  text \in {Fenced(p), FencedPlain(p), FencedPadded(p)}

\* C12: an attempt that settles with a JSON payload wrapped in code fences
\* (json tag or none, white space around) leaves the extraction result the
\* bare payload leaves.
C12_FencedSameAsBare ==
  \A p \in JsonPayloads :
    (lastOp.op = "settled" /\ lastOp.arg.kind = "text" /\ IsFencedFormOf(lastOp.arg.text, p)) =>
      /\ extractedData = OutcomeOf(p).data
      /\ error = OutcomeOf(p).error
      /\ OutcomeOf(p).error = Null

C12_Witness ==
  /\ lastOp.op = "settled"
  /\ lastOp.arg.kind = "text"
  /\ lastOp.arg.text = FencedPadded(PartialObject)
  /\ extractedData = Obj([nombre |-> Null, apellido |-> Str("Perez")])

\* the encoded payload of a file has no characters
EncodesToNothing(file) ==
  /\ fileToGenerativePart(file).data.t = "text"
  /\ Len(fileToGenerativePart(file).data.chars) = 0

\* C13: when the read of a file whose encoded payload is empty finishes, the
\* attempt ends as a user-input error and no request is sent to the
\* inference service.
C13_EmptyPayloadNotSent ==
  [][\A s \in Slots :
       (attempts[s].pc = "reading" /\ attempts'[s].pc # "reading"
          /\ lastOp'.arg = Str("load") /\ EncodesToNothing(attempts[s].file)) =>
         /\ attempts'[s].pc # "calling"
         /\ attempts'[s].sent = 0
         /\ error' = ErrNoImage]_vars

\* atob: the bytes a base64 text stands for
RECURSIVE Base64Decode(_)
Base64Decode(chars) ==
  IF Len(chars) < 4 THEN <<>>
  ELSE LET b1 == chars[1].d * 4 + chars[2].d \div 16
           rest == Base64Decode(SubSeq(chars, 5, Len(chars)))
       IN  IF chars[3] = Pad THEN <<b1>> \o rest
           ELSE LET b2 == (chars[2].d % 16) * 16 + chars[3].d \div 4
                IN  IF chars[4] = Pad THEN <<b1, b2>> \o rest
                    ELSE <<b1, b2, (chars[3].d % 4) * 64 + chars[4].d>> \o rest

ByteValues == {0, 137, 255}
MaxBytes == 4
RECURSIVE ByteSeqs(_)
ByteSeqs(n) ==
  IF n = 0 THEN {<<>>}
  ELSE ByteSeqs(n - 1) \cup { Append(q, b) : q \in { x \in ByteSeqs(n - 1) : Len(x) = n - 1 }, b \in ByteValues }

RoundTrips(file) ==
  LET part == fileToGenerativePart(file)
  IN  /\ part.data.t = "text"
      /\ Len(part.data.chars) % 4 = 0
      /\ Base64Decode(part.data.chars) = file.bytes
      /\ part.mimeType = file.type

\* C14: the part an attempt sends decodes to the bytes of its image and has
\* the image's MIME type; the same holds of every byte sequence up to
\* MaxBytes bytes.
C14_EncodingLossless ==
  /\ \A s \in Slots :
       attempts[s].pc = "calling" =>
         /\ attempts[s].part = fileToGenerativePart(attempts[s].file)
         /\ RoundTrips(attempts[s].file)
  /\ \A bytes \in ByteSeqs(MaxBytes) : RoundTrips(MkFile("x.jpg", "image/jpeg", bytes))

C14_Witness ==
  \E s \in Slots :
    /\ attempts[s].pc = "calling"
    /\ attempts[s].file.bytes = <<255, 216>>
    /\ Base64Decode(attempts[s].part.data.chars) = <<255, 216>>
    /\ attempts[s].part.mimeType = "image/jpeg"

\* C15: when every file read and every inference call finishes, each state
\* with loading true is followed by a state with loading false and a result
\* or an error set.
C15_AttemptCompletes ==
  loading ~> (~loading /\ (extractedData # Null \/ error # Null))

\* C16: an attempt has sent no request before its file is read, exactly one
\* while its call is outstanding, and never more than one; when the call
\* settles, with success or failure, the attempt ends without sending again.
C16_OneRequestPerAttempt ==
  /\ [](\A s \in Slots :
          /\ attempts[s].sent <= 1
          /\ attempts[s].pc = "calling" => attempts[s].sent = 1
          /\ attempts[s].pc \in {"reading", "hung"} => attempts[s].sent = 0)
  /\ [][\A s \in Slots :
          (lastOp'.op = "settled" /\ attempts'[s] # attempts[s]) =>
            /\ attempts[s].sent = 1
            /\ attempts'[s] = FreeSlot]_vars

C16_Witness ==
  /\ lastOp.op = "settled"
  /\ TryBlock(lastOp.arg).threw
  /\ error = ErrProcessing
  /\ OutstandingRequests = {}

\* C17: the camera is mounted exactly while useWebcam is true; it is mounted
\* only by the switch to camera mode and unmounted only by a completed capture
\* or the switch to file mode, each of which leaves it unmounted; a capture is
\* started only on a mounted camera with one of its frames, and a completed
\* capture puts the bytes of such a started capture in the held image.
SwitchedTo(op, on) == op.op = "setUseWebcam" /\ op.arg = Bool(on)
C17_CameraNesting ==
  /\ []((webcamRef # Null) <=> useWebcam)
  /\ [][/\ (webcamRef = Null /\ webcamRef' # Null) => SwitchedTo(lastOp', TRUE)
        /\ (webcamRef # Null /\ webcamRef' = Null) =>
             (lastOp'.op = "captureFetched" \/ SwitchedTo(lastOp', FALSE))
        /\ SwitchedTo(lastOp', TRUE) => webcamRef' # Null
        /\ SwitchedTo(lastOp', FALSE) => webcamRef' = Null
        /\ lastOp'.op = "captureFetched" =>
             /\ webcamRef' = Null
             /\ \E i \in 1..Len(captures) : captures[i] = lastOp'.arg
             /\ image'.bytes = lastOp'.arg.bytes
        /\ Len(captures') > Len(captures) =>
             /\ webcamRef # Null
             /\ captures'[Len(captures')].bytes \in Frames
        /\ (image' # image /\ lastOp'.op # "captureFetched") =>
             lastOp'.op = "handleImageChange"]_vars

C17_Witness ==
  /\ lastOp.op = "captureFetched"
  /\ webcamRef = Null
  /\ ~useWebcam
  /\ image # Null
  /\ image.bytes \in Frames

\* C18: a held result or extraction-failure error belongs to the held image:
\* the attempt that stores an outcome was started on the image held when it
\* stores it, and while an outcome stays held the image is not replaced.
OutcomeHeld == extractedData # Null \/ error = ErrProcessing
C18_OutcomeOfCurrentImage ==
  [][/\ lastOp'.op = "settled" =>
          \A s \in Slots : attempts'[s] # attempts[s] => attempts[s].file = image'
     /\ (OutcomeHeld' /\ lastOp'.op # "settled") => image' = image]_vars

\* C19: while an attempt is in progress neither a result nor an error is held.
C19_NoStaleOutcomeWhileLoading ==
  loading => (extractedData = Null /\ error = Null)

\* a new attempt started from a state that held a result or an error
C19_Witness ==
  /\ loading
  /\ lastOp.op = "handleVerifyClick"
  /\ lastOp.from \in {"Succeeded", "Failed"}
====
